---- MODULE Spec2Model ----
(***************************************************************************)
(* Model of app.py: the /run_stats handler (input validation, CSV load,    *)
(* cleaning, descriptive summary, test dispatch, post-hoc) and the         *)
(* lock-guarded CSV append helper _append_row.                             *)
(*                                                                         *)
(* Representation.                                                         *)
(*  - a string that the code trims or lower-cases is a sequence of         *)
(*    one-character strings; a CSV cell is an opaque string;               *)
(*  - a Python value that may be None is [present |-> BOOLEAN, s |-> ...]; *)
(*  - a float is [nan |-> BOOLEAN, v |-> Int], v in hundredths             *)
(*    (fixed point), and any arithmetic on NaN gives NaN;                  *)
(*  - a parsed cell is [t |-> dtype, s |-> text], t = "nan" for a          *)
(*    missing cell; the dtype is the one pandas infers for the column;     *)
(*  - the result of a library numeric procedure (scipy, statsmodels,       *)
(*    scikit_posthocs) is the term [fn |-> name, ...arguments], and        *)
(*    whether the procedure raises on its arguments is the environment's   *)
(*    choice, recorded in lib.                                             *)
(***************************************************************************)
EXTENDS Integers, Sequences, FiniteSets, TLC

VARIABLES
    \* ---- one /run_stats request ----
    file,        \* request.files.get("file"): [present, lines]
    form,        \* request.form: [group, value, test], each [present, s]
    pc,          \* position of the handler
    group_col,   \* line 79
    value_col,   \* line 80
    test,        \* line 81
    df,          \* the working table
    groups,      \* line 108
    n_by_group,  \* line 109
    out,         \* the success payload under construction (line 111)
    resp,        \* what the handler returned: [kind, code, body]
    lib,         \* which library numeric procedure raised: none | test | posthoc
    computed,    \* the statistical computations attempted so far
    \* ---- concurrent _append_row calls ----
    apc,         \* position of each caller
    acsv,        \* csv_name of each caller
    new_file,    \* each caller's local new_file (line 177)
    abuf,        \* each caller's open file object: its unflushed lines
    csv_lock,    \* _csv_lock: 0 when free, else the holder
    fs,          \* the data directory: csv_name -> [exists, lines]
    completed    \* csv_name -> number of calls that returned

statsVars == <<file, form, pc, group_col, value_col, test, df, groups,
               n_by_group, out, resp, lib, computed>>
appendVars == <<apc, acsv, new_file, abuf, csv_lock, fs, completed>>
vars == <<statsVars, appendVars>>

(***************************************************************************)
(* Bounds of the model.                                                    *)
(***************************************************************************)
MaxRows == 3
MaxWideRows == 1
NCallers == 2

(***************************************************************************)
(* Strings.                                                                *)
(***************************************************************************)
IsSpace(c) == c = " "

RECURSIVE LStrip(_)
LStrip(s) == IF s # <<>> /\ IsSpace(Head(s)) THEN LStrip(Tail(s)) ELSE s

RECURSIVE RStrip(_)
RStrip(s) ==
    IF s # <<>> /\ IsSpace(s[Len(s)]) THEN RStrip(SubSeq(s, 1, Len(s) - 1)) ELSE s

\* str.strip()
Strip(s) == RStrip(LStrip(s))

LowerChar(c) ==
    CASE c = "T" -> "t" [] c = "E" -> "e" [] c = "S" -> "s" [] c = "A" -> "a"
      [] c = "N" -> "n" [] c = "O" -> "o" [] c = "V" -> "v" [] c = "K" -> "k"
      [] c = "R" -> "r" [] c = "U" -> "u" [] c = "L" -> "l" [] OTHER -> c

\* str.lower()
Lower(s) == [i \in 1..Len(s) |-> LowerChar(s[i])]

\* request.form.get(k) or ""
OrEmpty(field) == IF field.present THEN field.s ELSE <<>>

\* list(request.form.keys())
FormKeys(f) == {k \in {"group", "value", "test"} : f[k].present}

(***************************************************************************)
(* Floats: fixed point in hundredths, with NaN.                            *)
(***************************************************************************)
\* one unit = 1/100
Scale == 10 * 10
NaN == [nan |-> TRUE, v |-> 0]
Fl(x) == [nan |-> FALSE, v |-> x]

FAdd(a, b) == IF a.nan \/ b.nan THEN NaN ELSE Fl(a.v + b.v)
FSub(a, b) == IF a.nan \/ b.nan THEN NaN ELSE Fl(a.v - b.v)
\* IEEE comparison: NaN equals nothing, itself included
FEq(a, b) == ~a.nan /\ ~b.nan /\ a.v = b.v

RECURSIVE ISqrtIn(_, _, _)
\* the r with lo <= r < hi and r * r <= x < (r + 1) * (r + 1), by bisection
ISqrtIn(x, lo, hi) ==
    IF hi - lo <= 1 THEN lo
    ELSE LET mid == (lo + hi) \div 2
         IN  IF mid * mid <= x THEN ISqrtIn(x, mid, hi) ELSE ISqrtIn(x, lo, mid)

\* floor of the square root
ISqrt(x) == ISqrtIn(x, 0, x + 1)

RECURSIVE SeqSum(_)
SeqSum(s) == IF s = <<>> THEN 0 ELSE Head(s) + SeqSum(Tail(s))

Max(a, b) == IF a >= b THEN a ELSE b

(***************************************************************************)
(* pandas: read_csv, column selection, to_numeric, dropna, unique,         *)
(* groupby.                                                                *)
(***************************************************************************)
\* the texts read_csv and to_numeric parse as numbers, and their values
IsNumericText(s) == s \in {"1", "3"}
NumberOf(s) == CASE s = "1" -> 1 [] s = "3" -> 3 [] OTHER -> 0

\* the order of labels within one column, as groupby sorts them
TextRank(s) ==
    CASE s = "1" -> 1 [] s = "3" -> 3 [] s = "a" -> 10 [] s = "b" -> 11
      [] s = "k" -> 12 [] s = "x" -> 13 [] OTHER -> 0

MissingCell == [t |-> "nan", s |-> ""]
IsNa(cell) == cell.t = "nan"

\* the dtype read_csv infers for a column from its cells: int64 when every
\* cell is a number, float64 when the others are empty, else object
InferDtype(cells) ==
    LET full == {i \in 1..Len(cells) : cells[i] # ""}
    IN  IF cells = <<>> THEN "str"
        ELSE IF \A i \in full : IsNumericText(cells[i])
             THEN (IF full = 1..Len(cells) THEN "int" ELSE "float")
             ELSE "str"

ParseCell(dtype, s) == IF s = "" THEN MissingCell ELSE [t |-> dtype, s |-> s]

\* pd.read_csv(f) raises on a payload without a header line
ReadCsvRaises(f) == f.lines = <<>>

\* pd.read_csv(f): the first line is the header, the others are the rows
ReadCsv(f) ==
    LET header == Head(f.lines)
        raw == Tail(f.lines)
        dtype(j) == InferDtype([i \in 1..Len(raw) |-> raw[i][j]])
    IN  [columns |-> header,
         rows |-> [i \in 1..Len(raw) |->
                     [j \in 1..Len(header) |-> ParseCell(dtype(j), raw[i][j])]]]

\* name in df.columns
HasColumn(d, name) == \E j \in 1..Len(d.columns) : d.columns[j] = name

ColIndex(d, name) ==
    CHOOSE j \in 1..Len(d.columns) :
        /\ d.columns[j] = name
        /\ \A k \in 1..(j - 1) : d.columns[k] # name

\* df[name] selects several columns when the name is not unique
SelectsFrame(d, name) == Cardinality({j \in 1..Len(d.columns) : d.columns[j] = name}) > 1

\* df[name] as a list, for a unique name
Column(d, name) == [i \in 1..Len(d.rows) |-> d.rows[i][ColIndex(d, name)]]

\* df[[a, b]].copy()
SelectColumns(d, names) ==
    [columns |-> names,
     rows |-> [i \in 1..Len(d.rows) |->
                 [j \in 1..Len(names) |-> d.rows[i][ColIndex(d, names[j])]]]]

\* pd.to_numeric(x, errors="coerce") of one cell
CoerceCell(cell) ==
    IF ~IsNa(cell) /\ IsNumericText(cell.s) THEN [t |-> "num", s |-> cell.s]
    ELSE MissingCell

\* pd.to_numeric(df[value_col], errors="coerce") raises TypeError on a DataFrame
ToNumericRaises(d, name) == SelectsFrame(d, name)

\* df[name] = pd.to_numeric(df[name], errors="coerce")
ToNumeric(d, name) ==
    [d EXCEPT !.rows =
        [i \in 1..Len(d.rows) |->
            [d.rows[i] EXCEPT ![ColIndex(d, name)] = CoerceCell(@)]]]

RECURSIVE FilterRows(_, _)
\* the rows whose cell j is not missing
FilterRows(rows, j) ==
    IF rows = <<>> THEN <<>>
    ELSE (IF IsNa(Head(rows)[j]) THEN <<>> ELSE <<Head(rows)>>)
         \o FilterRows(Tail(rows), j)

\* DropNa without the drop: the rows with a missing value stay
DropNa_Keep(d, name) == d

\* df.dropna(subset=[name])
DropNa(d, name) == [d EXCEPT !.rows = FilterRows(d.rows, ColIndex(d, name))]

RECURSIVE Unique_KeepNa(_)
\* Unique without the dropna(): the missing label is listed as a group
Unique_KeepNa(cells) ==
    IF cells = <<>> THEN <<>>
    ELSE LET init == Unique_KeepNa(SubSeq(cells, 1, Len(cells) - 1))
             last == cells[Len(cells)]
         IN  IF \E i \in 1..Len(init) : init[i] = last
             THEN init ELSE Append(init, last)

RECURSIVE Unique(_)
\* Series.dropna().unique().tolist(): order of first appearance
Unique(cells) ==
    IF cells = <<>> THEN <<>>
    ELSE LET init == Unique(SubSeq(cells, 1, Len(cells) - 1))
             last == cells[Len(cells)]
         IN  IF IsNa(last) \/ \E i \in 1..Len(init) : init[i] = last
             THEN init ELSE Append(init, last)

\* the keys of df.groupby(name): a missing label forms no group
GroupKeys(d, name) == {c \in {Column(d, name)[i] : i \in 1..Len(d.rows)} : ~IsNa(c)}

\* the rows of one group
GroupRows(d, name, key) == {i \in 1..Len(d.rows) : d.rows[i][ColIndex(d, name)] = key}

RECURSIVE SortedKeys(_)
SortedKeys(S) ==
    IF S = {} THEN <<>>
    ELSE LET m == CHOOSE x \in S : \A y \in S : TextRank(x.s) <= TextRank(y.s)
         IN  <<m>> \o SortedKeys(S \ {m})

RECURSIVE ValuesOf(_, _, _, _)
\* df[df[gname] == key][vname].astype(float), in row order
ValuesOf(d, gname, vname, key) ==
    IF d.rows = <<>> THEN <<>>
    ELSE LET r == Head(d.rows)
             rest == ValuesOf([d EXCEPT !.rows = Tail(d.rows)], gname, vname, key)
         IN  IF r[ColIndex(d, gname)] = key
             THEN <<NumberOf(r[ColIndex(d, vname)].s)>> \o rest ELSE rest

\* df.groupby(name)[v].size().to_dict()
GroupSizes(d, name) ==
    [key \in GroupKeys(d, name) |-> Cardinality(GroupRows(d, name, key))]

(***************************************************************************)
(* Helpers of app.py.                                                      *)
(***************************************************************************)
\* dict.update
Update(d, extra) ==
    [k \in DOMAIN d \cup DOMAIN extra |-> IF k \in DOMAIN extra THEN extra[k] ELSE d[k]]

\* the 1.96 of the normal-approximation interval, in hundredths
Z95 == 196

\* g['std'] / np.sqrt(g['n'].clip(lower=1))
SemOf(std, n) ==
    IF std.nan THEN NaN ELSE Fl((std.v * Scale) \div ISqrt(Max(n, 1) * Scale * Scale))

\* 1.96 * g['sem']
HalfWidth(sem) == IF sem.nan THEN NaN ELSE Fl((Z95 * sem.v) \div Scale)

\* Series.mean() of a group
MeanOf(xs) == IF xs = <<>> THEN NaN ELSE Fl((SeqSum(xs) * Scale) \div Len(xs))

\* Series.std() of a group: the sample standard deviation (ddof = 1) is
\* undefined, NaN, for fewer than two values
StdOf(xs) ==
    LET n == Len(xs)
        sq == SeqSum([i \in 1..n |-> xs[i] * xs[i]])
        sm == SeqSum(xs)
    IN  IF n < 2 THEN NaN
        ELSE Fl(ISqrt(((n * sq - sm * sm) * Scale * Scale) \div (n * (n - 1))))

\* one record of descriptives(...).to_dict(orient="records")
DescriptiveRecord(key, xs) ==
    LET mean == MeanOf(xs)
        std == StdOf(xs)
        n == Len(xs)
        sem == SemOf(std, n)
    IN  [Group |-> key, mean |-> mean, std |-> std, n |-> n, sem |-> sem,
         ci95_lo |-> FSub(mean, HalfWidth(sem)),
         ci95_hi |-> FAdd(mean, HalfWidth(sem))]

\* descriptives(df, group_col, value_col): one record per group key, in the
\* sorted order of groupby
descriptives(d, gname, vname) ==
    LET keys == SortedKeys(GroupKeys(d, gname))
    IN  [i \in 1..Len(keys) |-> DescriptiveRecord(keys[i], ValuesOf(d, gname, vname, keys[i]))]

\* json_error(msg, code, **extra): the (body, status) pair returned
json_error(msg, code, extra) ==
    [code |-> code, body |-> Update([ok |-> FALSE, error |-> msg], extra)]

\* jsonify(out), status 200
jsonify(payload) == [code |-> 200, body |-> payload]

NoExtra == [k \in {} |-> TRUE]
NoResponse == [code |-> 0, body |-> [none |-> TRUE]]
NoPayload == [none |-> TRUE]
EmptyDf == [columns |-> <<>>, rows |-> <<>>]

TTEST == <<"t", "t", "e", "s", "t">>
ANOVA == <<"a", "n", "o", "v", "a">>
KRUSKAL == <<"k", "r", "u", "s", "k", "a", "l">>

(***************************************************************************)
(* run_stats, one operator per step of the handler.  h is the handler's    *)
(* state: the request and the handler's locals.                            *)
(***************************************************************************)
\* return json_error(...)
Fail(h, r) == [h EXCEPT !.resp = r, !.pc = "done"]

\* lines 78-87
StepInputs(h) ==
    LET g == Strip(OrEmpty(h.form.group))
        v == Strip(OrEmpty(h.form.value))
        t == Lower(Strip(OrEmpty(h.form.test)))
        h1 == [h EXCEPT !.group_col = g, !.value_col = v, !.test = t]
    IN  IF ~h.file.present
        THEN Fail(h1, json_error("No CSV uploaded.", 400, NoExtra))
        ELSE IF g = <<>> \/ v = <<>> \/ t = <<>>
        THEN Fail(h1, json_error("Missing group/value/test parameters.", 400,
                                 [params |-> FormKeys(h.form)]))
        ELSE [h1 EXCEPT !.pc = "load"]

\* lines 90-93
StepLoad(h) ==
    IF ReadCsvRaises(h.file)
    THEN Fail(h, json_error("Could not read CSV.", 400, [detail |-> "read_csv"]))
    ELSE [h EXCEPT !.df = ReadCsv(h.file), !.pc = "validate"]

\* lines 96-100
StepValidate(h) ==
    IF ~HasColumn(h.df, h.group_col) \/ ~HasColumn(h.df, h.value_col)
    THEN Fail(h, json_error("Column not found in CSV.", 400,
                            [columns |-> h.df.columns,
                             group_requested |-> h.group_col,
                             value_requested |-> h.value_col]))
    ELSE [h EXCEPT !.pc = "clean"]

\* lines 103-105, outside the try: an exception leaves the handler
StepClean(h) ==
    LET d1 == SelectColumns(h.df, <<h.group_col, h.value_col>>)
    IN  IF ToNumericRaises(d1, h.value_col)
        THEN [h EXCEPT !.df = d1, !.pc = "raised"]
        ELSE [h EXCEPT !.df = DropNa(ToNumeric(d1, h.value_col), h.value_col),
                       !.pc = "structure"]

\* lines 108-117
StepStructure(h) ==
    LET gs == Unique(Column(h.df, h.group_col))
        ns == GroupSizes(h.df, h.group_col)
    IN  [h EXCEPT !.groups = gs,
                  !.n_by_group = ns,
                  !.out = [ok |-> TRUE, groups |-> gs, n_by_group |-> ns,
                           descriptives |-> descriptives(h.df, h.group_col, h.value_col),
                           requested_test |-> h.test],
                  !.computed = @ \cup {"descriptives"},
                  !.pc = "test"]

\* Except without code=500: json_error's default status
Except_Default400(h, where, fn) ==
    [h EXCEPT !.lib = where,
              !.computed = @ \cup {where},
              !.resp = json_error("Exception during analysis.", 400, [detail |-> fn]),
              !.pc = "done"]

\* lines 154-156: an exception raised inside the try
Except(h, where, fn) ==
    [h EXCEPT !.lib = where,
              !.computed = @ \cup {where},
              !.resp = json_error("Exception during analysis.", 500, [detail |-> fn]),
              !.pc = "done"]

\* StepTTest with the guard len(groups) < 2
StepTTest_AtLeastTwo(h, raises) ==
    IF Len(h.groups) < 2
    THEN Fail(h, json_error("t-test requires exactly 2 groups.", 400,
                            [groups |-> h.groups]))
    ELSE IF raises THEN Except(h, "test", "ttest_ind")
    ELSE LET g1 == ValuesOf(h.df, h.group_col, h.value_col, h.groups[1])
             g2 == ValuesOf(h.df, h.group_col, h.value_col, h.groups[2])
             r(stat) == [fn |-> "ttest_ind", stat |-> stat, a |-> g1, b |-> g2]
         IN  [h EXCEPT !.out = Update(@, [test |-> "Welch t-test",
                                          t |-> r("t"), p |-> r("p")]),
                       !.computed = @ \cup {"test"},
                       !.pc = "return"]

\* lines 121-127
StepTTest(h, raises) ==
    IF Len(h.groups) # 2
    THEN Fail(h, json_error("t-test requires exactly 2 groups.", 400,
                            [groups |-> h.groups]))
    ELSE IF raises THEN Except(h, "test", "ttest_ind")
    ELSE LET g1 == ValuesOf(h.df, h.group_col, h.value_col, h.groups[1])
             g2 == ValuesOf(h.df, h.group_col, h.value_col, h.groups[2])
             r(stat) == [fn |-> "ttest_ind", stat |-> stat, a |-> g1, b |-> g2]
         IN  [h EXCEPT !.out = Update(@, [test |-> "Welch t-test",
                                          t |-> r("t"), p |-> r("p")]),
                       !.computed = @ \cup {"test"},
                       !.pc = "return"]

\* lines 129-137
StepAnova(h, raises) ==
    IF Len(h.groups) < 3
    THEN Fail(h, json_error("One-way ANOVA requires >=3 groups.", 400,
                            [groups |-> h.groups]))
    ELSE IF raises THEN Except(h, "test", "anova_lm")
    ELSE [h EXCEPT !.out = Update(@, [test |-> "One-way ANOVA",
                                      anova |-> [fn |-> "anova_lm", data |-> h.df]]),
                   !.computed = @ \cup {"test"},
                   !.pc = "tukey"]

\* lines 139-141
StepTukey(h, raises) ==
    IF raises THEN Except(h, "posthoc", "pairwise_tukeyhsd")
    ELSE [h EXCEPT !.out = Update(@, [tukey |-> [fn |-> "pairwise_tukeyhsd",
                                                 endog |-> Column(h.df, h.value_col),
                                                 groups |-> Column(h.df, h.group_col)]]),
                   !.computed = @ \cup {"posthoc"},
                   !.pc = "return"]

\* lines 143-148
StepKruskal(h, raises) ==
    IF Len(h.groups) < 3
    THEN Fail(h, json_error("Kruskal-Wallis requires >=3 groups.", 400,
                            [groups |-> h.groups]))
    ELSE IF raises THEN Except(h, "test", "kruskal")
    ELSE LET samples == [i \in 1..Len(h.groups) |->
                            ValuesOf(h.df, h.group_col, h.value_col, h.groups[i])]
             r(stat) == [fn |-> "kruskal", stat |-> stat, samples |-> samples]
         IN  [h EXCEPT !.out = Update(@, [test |-> "Kruskal-Wallis",
                                          H |-> r("H"), p |-> r("p")]),
                       !.computed = @ \cup {"test"},
                       !.pc = "dunn"]

\* StepDunn with the post-hoc failure swallowed: the partial payload is returned
StepDunn_Swallow(h, raises) ==
    IF raises THEN [h EXCEPT !.lib = "posthoc", !.computed = @ \cup {"posthoc"},
                             !.pc = "return"]
    ELSE [h EXCEPT !.out = Update(@, [dunn |-> [fn |-> "posthoc_dunn", data |-> h.df,
                                                p_adjust |-> "bonferroni"]]),
                   !.computed = @ \cup {"posthoc"},
                   !.pc = "return"]

\* lines 149-150
StepDunn(h, raises) ==
    IF raises THEN Except(h, "posthoc", "posthoc_dunn")
    ELSE [h EXCEPT !.out = Update(@, [dunn |-> [fn |-> "posthoc_dunn", data |-> h.df,
                                                p_adjust |-> "bonferroni"]]),
                   !.computed = @ \cup {"posthoc"},
                   !.pc = "return"]

\* lines 152-153
StepUnknown(h) ==
    Fail(h, json_error("Unknown test. Use: ttest | anova | kruskal.", 400, NoExtra))

\* line 158
StepReturn(h) == [h EXCEPT !.resp = jsonify(h.out), !.pc = "done"]

\* Branch with the last elif taken as the else
Branch_FallThrough(h) ==
    IF h.test = TTEST THEN "ttest"
    ELSE IF h.test = ANOVA THEN "anova"
    ELSE "kruskal"

\* the if / elif chain of lines 121, 129, 143, 152
Branch(h) ==
    IF h.test = TTEST THEN "ttest"
    ELSE IF h.test = ANOVA THEN "anova"
    ELSE IF h.test = KRUSKAL THEN "kruskal"
    ELSE "unknown"

RECURSIVE Run(_, _)
\* the handler run to its end from h, when the library procedures behave as
\* l says (none raises, the test raises, the post-hoc raises)
Run(h, l) ==
    CASE h.pc = "start" -> Run(StepInputs(h), l)
      [] h.pc = "load" -> Run(StepLoad(h), l)
      [] h.pc = "validate" -> Run(StepValidate(h), l)
      [] h.pc = "clean" -> Run(StepClean(h), l)
      [] h.pc = "structure" -> Run(StepStructure(h), l)
      [] h.pc = "test" /\ Branch(h) = "ttest" -> Run(StepTTest(h, l = "test"), l)
      [] h.pc = "test" /\ Branch(h) = "anova" -> Run(StepAnova(h, l = "test"), l)
      [] h.pc = "test" /\ Branch(h) = "kruskal" -> Run(StepKruskal(h, l = "test"), l)
      [] h.pc = "test" /\ Branch(h) = "unknown" -> Run(StepUnknown(h), l)
      [] h.pc = "tukey" -> Run(StepTukey(h, l = "posthoc"), l)
      [] h.pc = "dunn" -> Run(StepDunn(h, l = "posthoc"), l)
      [] h.pc = "return" -> Run(StepReturn(h), l)
      [] OTHER -> h

\* the handler's state when the request arrives
Start(f, frm) ==
    [file |-> f, form |-> frm, pc |-> "start", group_col |-> <<>>, value_col |-> <<>>,
     test |-> <<>>, df |-> EmptyDf, groups |-> <<>>, n_by_group |-> <<>>,
     out |-> NoPayload, resp |-> NoResponse, lib |-> "none", computed |-> {}]

(***************************************************************************)
(* The requests considered.                                                *)
(***************************************************************************)
Present(s) == [present |-> TRUE, s |-> s]
Absent == [present |-> FALSE, s |-> <<>>]

GName == <<"g">>
VName == <<"v">>
WName == <<"w">>
ZName == <<"z">>

\* the cells of the group column and of the value column: "" is a missing
\* cell, "x" a text that is no number
GroupCells == {"1", "a", "b", ""}
ValueCells == {"1", "3", "x"}

SeqsUpTo(S, n) == UNION {[1..k -> S] : k \in 0..n}

NoFile == [present |-> FALSE, lines |-> <<>>]
EmptyFile == [present |-> TRUE, lines |-> <<>>]
Table(header, rows) == [present |-> TRUE, lines |-> <<header>> \o rows]

\* header g,v with every table of up to MaxRows rows; a wider table in
\* another column order; a table without the value column
Files ==
    {NoFile, EmptyFile}
    \cup {Table(<<GName, VName>>, rows) :
            rows \in SeqsUpTo(GroupCells \X ValueCells, MaxRows)}
    \cup {Table(<<VName, WName, GName>>, rows) :
            rows \in SeqsUpTo({<<"1", "k", "a">>, <<"x", "k", "b">>, <<"3", "k", "">>},
                              MaxWideRows)}
    \cup {Table(<<GName>>, rows) : rows \in SeqsUpTo({<<"a">>}, MaxWideRows)}

Form(g, v, t) == [group |-> g, value |-> v, test |-> t]

WILCOXON == <<"w", "i", "l", "c", "o", "x", "o", "n">>

\* group g, value v and each test identifier, as the dashboard sends them
CoreForms ==
    {Form(Present(GName), Present(VName), Present(t)) :
        t \in {TTEST, ANOVA, KRUSKAL, WILCOXON}}

\* fields that are absent, empty, padded or in another case; names that are
\* equal, swapped or not in the header
EdgeForms ==
    {Form(Present(GName), Present(VName), t) :
        t \in {Absent, Present(<<>>), Present(<<" ", "T", "T", "e", "s", "t", " ">>),
               Present(<<"K", "R", "U", "S", "K", "A", "L">>)}}
    \cup {Form(Present(<<" ", "g", " ">>), Present(<<"v", " ">>), Present(ANOVA)),
          Form(Absent, Present(VName), Present(TTEST)),
          Form(Present(GName), Absent, Present(TTEST)),
          Form(Present(<<" ">>), Present(VName), Present(TTEST)),
          Form(Present(GName), Present(GName), Present(TTEST)),
          Form(Present(GName), Present(GName), Present(WILCOXON)),
          Form(Present(ZName), Present(VName), Present(TTEST)),
          Form(Present(GName), Present(ZName), Present(KRUSKAL)),
          Form(Present(VName), Present(GName), Present(TTEST))}

Forms == CoreForms \cup EdgeForms

\* a file of at most MaxWideRows data rows
SmallFile(f) == Len(f.lines) <= 1 + MaxWideRows

\* every file with the core forms, the small files with the others
Requests == {r \in Files \X Forms : r[2] \in CoreForms \/ SmallFile(r[1])}

(***************************************************************************)
(* _append_row.                                                            *)
(***************************************************************************)
Callers == 1..NCallers

\* the keys of ALLOWED_CSV and a name that is not one
ALLOWED_CSV == {"animal_log", "lab_notebook", "meeting_notes"}
CsvNames == {"animal_log", "lab_notebook", "bogus"}

HeaderLine(name) == [kind |-> "header", csv |-> name, by |-> 0]
RowLine(name, c) == [kind |-> "row", csv |-> name, by |-> c]

NoCsvFile == [exists |-> FALSE, lines |-> <<>>]

(***************************************************************************)
(* Initial states.                                                         *)
(***************************************************************************)
AppendIdle ==
    /\ apc = [c \in Callers |-> "idle"]
    /\ acsv = [c \in Callers |-> "animal_log"]
    /\ new_file = [c \in Callers |-> FALSE]
    /\ abuf = [c \in Callers |-> <<>>]
    /\ csv_lock = 0
    /\ fs = [n \in CsvNames |-> NoCsvFile]
    /\ completed = [n \in CsvNames |-> 0]

Cur ==
    [file |-> file, form |-> form, pc |-> pc, group_col |-> group_col,
     value_col |-> value_col, test |-> test, df |-> df, groups |-> groups,
     n_by_group |-> n_by_group, out |-> out, resp |-> resp, lib |-> lib,
     computed |-> computed]

Is(h) ==
    /\ file = h.file /\ form = h.form /\ pc = h.pc /\ group_col = h.group_col
    /\ value_col = h.value_col /\ test = h.test /\ df = h.df /\ groups = h.groups
    /\ n_by_group = h.n_by_group /\ out = h.out /\ resp = h.resp /\ lib = h.lib
    /\ computed = h.computed

Becomes(h) ==
    /\ file' = h.file /\ form' = h.form /\ pc' = h.pc /\ group_col' = h.group_col
    /\ value_col' = h.value_col /\ test' = h.test /\ df' = h.df /\ groups' = h.groups
    /\ n_by_group' = h.n_by_group /\ out' = h.out /\ resp' = h.resp /\ lib' = h.lib
    /\ computed' = h.computed

\* a request has arrived; no _append_row call is in progress
Init ==
    /\ \E r \in Requests : Is(Start(r[1], r[2]))
    /\ AppendIdle

\* no request; the data directory is empty
AppendInit ==
    /\ Is(Start(NoFile, Form(Absent, Absent, Absent)))
    /\ AppendIdle

(***************************************************************************)
(* Actions of run_stats.                                                   *)
(***************************************************************************)
Inputs == pc = "start" /\ Becomes(StepInputs(Cur)) /\ UNCHANGED appendVars

LoadCsv == pc = "load" /\ Becomes(StepLoad(Cur)) /\ UNCHANGED appendVars

ValidateColumns == pc = "validate" /\ Becomes(StepValidate(Cur)) /\ UNCHANGED appendVars

Clean == pc = "clean" /\ Becomes(StepClean(Cur)) /\ UNCHANGED appendVars

Structure == pc = "structure" /\ Becomes(StepStructure(Cur)) /\ UNCHANGED appendVars

TTest ==
    /\ pc = "test" /\ Branch(Cur) = "ttest"
    /\ \E raises \in BOOLEAN : Becomes(StepTTest(Cur, raises))
    /\ UNCHANGED appendVars

Anova ==
    /\ pc = "test" /\ Branch(Cur) = "anova"
    /\ \E raises \in BOOLEAN : Becomes(StepAnova(Cur, raises))
    /\ UNCHANGED appendVars

Tukey ==
    /\ pc = "tukey"
    /\ \E raises \in BOOLEAN : Becomes(StepTukey(Cur, raises))
    /\ UNCHANGED appendVars

Kruskal ==
    /\ pc = "test" /\ Branch(Cur) = "kruskal"
    /\ \E raises \in BOOLEAN : Becomes(StepKruskal(Cur, raises))
    /\ UNCHANGED appendVars

Dunn ==
    /\ pc = "dunn"
    /\ \E raises \in BOOLEAN : Becomes(StepDunn(Cur, raises))
    /\ UNCHANGED appendVars

UnknownTest ==
    /\ pc = "test" /\ Branch(Cur) = "unknown"
    /\ Becomes(StepUnknown(Cur))
    /\ UNCHANGED appendVars

Return == pc = "return" /\ Becomes(StepReturn(Cur)) /\ UNCHANGED appendVars

Next ==
    \/ Inputs \/ LoadCsv \/ ValidateColumns \/ Clean \/ Structure
    \/ TTest \/ Anova \/ Tukey \/ Kruskal \/ Dunn \/ UnknownTest \/ Return

Spec == Init /\ [][Next]_vars

(***************************************************************************)
(* Actions of _append_row, one per statement; callers interleave between   *)
(* statements.                                                             *)
(***************************************************************************)
\* a caller enters _append_row(csv_name, row)
Call(c) ==
    /\ apc[c] = "idle"
    /\ \E n \in CsvNames : acsv' = [acsv EXCEPT ![c] = n]
    /\ apc' = [apc EXCEPT ![c] = "check"]
    /\ UNCHANGED <<new_file, abuf, csv_lock, fs, completed, statsVars>>

\* lines 171-172
CheckName(c) ==
    /\ apc[c] = "check"
    /\ apc' = [apc EXCEPT ![c] = IF acsv[c] \in ALLOWED_CSV THEN "exists" ELSE "raised"]
    /\ UNCHANGED <<acsv, new_file, abuf, csv_lock, fs, completed, statsVars>>

\* lines 173-177: new_file = not os.path.exists(path), before the lock is taken
Exists(c) ==
    /\ apc[c] = "exists"
    /\ new_file' = [new_file EXCEPT ![c] = ~fs[acsv[c]].exists]
    /\ apc' = [apc EXCEPT ![c] = "lock"]
    /\ UNCHANGED <<acsv, abuf, csv_lock, fs, completed, statsVars>>

\* line 178: with _csv_lock
Acquire(c) ==
    /\ apc[c] = "lock"
    /\ csv_lock = 0
    /\ csv_lock' = c
    /\ apc' = [apc EXCEPT ![c] = "open"]
    /\ UNCHANGED <<acsv, new_file, abuf, fs, completed, statsVars>>

\* line 178: open(path, "a") creates the file when it is absent
Open(c) ==
    /\ apc[c] = "open"
    /\ fs' = [fs EXCEPT ![acsv[c]].exists = TRUE]
    /\ abuf' = [abuf EXCEPT ![c] = <<>>]
    /\ apc' = [apc EXCEPT ![c] = "header"]
    /\ UNCHANGED <<acsv, new_file, csv_lock, completed, statsVars>>

\* lines 179-181
WriteHeader(c) ==
    /\ apc[c] = "header"
    /\ abuf' = [abuf EXCEPT ![c] =
                  IF new_file[c] THEN Append(@, HeaderLine(acsv[c])) ELSE @]
    /\ apc' = [apc EXCEPT ![c] = "row"]
    /\ UNCHANGED <<acsv, new_file, csv_lock, fs, completed, statsVars>>

\* line 182
WriteRow(c) ==
    /\ apc[c] = "row"
    /\ abuf' = [abuf EXCEPT ![c] = Append(@, RowLine(acsv[c], c))]
    /\ apc' = [apc EXCEPT ![c] = "close"]
    /\ UNCHANGED <<acsv, new_file, csv_lock, fs, completed, statsVars>>

\* end of the with block: the file is closed, its buffer reaching the file
Close(c) ==
    /\ apc[c] = "close"
    /\ fs' = [fs EXCEPT ![acsv[c]].lines = @ \o abuf[c]]
    /\ abuf' = [abuf EXCEPT ![c] = <<>>]
    /\ apc' = [apc EXCEPT ![c] = "release"]
    /\ UNCHANGED <<acsv, new_file, csv_lock, completed, statsVars>>

\* end of the with block: then the lock is released
Release(c) ==
    /\ apc[c] = "release"
    /\ csv_lock' = 0
    /\ apc' = [apc EXCEPT ![c] = "return"]
    /\ UNCHANGED <<acsv, new_file, abuf, fs, completed, statsVars>>

\* line 183
ReturnPath(c) ==
    /\ apc[c] = "return"
    /\ completed' = [completed EXCEPT ![acsv[c]] = @ + 1]
    /\ apc' = [apc EXCEPT ![c] = "done"]
    /\ UNCHANGED <<acsv, new_file, abuf, csv_lock, fs, statsVars>>

AppendNext ==
    \E c \in Callers :
        \/ Call(c) \/ CheckName(c) \/ Exists(c) \/ Acquire(c) \/ Open(c)
        \/ WriteHeader(c) \/ WriteRow(c) \/ Close(c) \/ Release(c) \/ ReturnPath(c)

AppendSpec == AppendInit /\ [][AppendNext]_vars

(***************************************************************************)
(* Vocabulary of the properties.                                           *)
(***************************************************************************)
\* the handler has ended: it returned, or an exception left it
Ended == pc \in {"done", "raised"}
Returned == pc = "done"

\* execution reached the try block of line 120
ReachedDispatch == "descriptives" \in computed

Keys(r) == DOMAIN r.body
IsFailure(r) == r.code # 0 /\ "ok" \in Keys(r) /\ r.body.ok = FALSE
IsSuccess(r) == r.code # 0 /\ "ok" \in Keys(r) /\ r.body.ok = TRUE

\* the failure kinds of the error taxonomy, told apart by the message
KindOf(r) ==
    LET m == r.body.error
    IN  CASE m \in {"No CSV uploaded.", "Missing group/value/test parameters."}
               -> "MissingInput"
          [] m = "Could not read CSV." -> "ParseError"
          [] m = "Column not found in CSV." -> "ColumnNotFound"
          [] m \in {"t-test requires exactly 2 groups.",
                    "One-way ANOVA requires >=3 groups.",
                    "Kruskal-Wallis requires >=3 groups."} -> "ApplicabilityError"
          [] m = "Unknown test. Use: ttest | anova | kruskal." -> "UnknownTest"
          [] m = "Exception during analysis." -> "AnalysisException"
          [] OTHER -> "other"

StatKeys == {"t", "p", "H", "anova", "tukey", "dunn"}

UnknownId == test # <<>> /\ test \notin {TTEST, ANOVA, KRUSKAL}

\* the group cardinality does not fit the requested test
Misfit ==
    \/ test = TTEST /\ Len(groups) # 2
    \/ test \in {ANOVA, KRUSKAL} /\ Len(groups) < 3

Range(f) == {f[x] : x \in DOMAIN f}

RECURSIVE SumOver(_, _)
SumOver(f, S) ==
    IF S = {} THEN 0 ELSE LET x == CHOOSE x \in S : TRUE IN f[x] + SumOver(f, S \ {x})

(***************************************************************************)
(* C1.  Every run_stats request ends by returning the success payload or   *)
(* a structured failure payload {ok: false, error: ...}; no exception      *)
(* leaves the handler.                                                     *)
(***************************************************************************)
C1_EveryRequestReturnsPayload ==
    Ended =>
        /\ Returned
        /\ IsSuccess(resp) \/ (IsFailure(resp) /\ "error" \in Keys(resp))

(***************************************************************************)
(* C2.  Once the counts are computed, the counts of n_by_group sum to the  *)
(* number of rows of the working table after numeric coercion and the drop *)
(* of rows with a missing value, rows with a missing group label included. *)
(***************************************************************************)
C2_CountsSumToRows ==
    ReachedDispatch => SumOver(n_by_group, DOMAIN n_by_group) = Len(df.rows)

(***************************************************************************)
(* C3.  A request that reached test dispatch with a group cardinality that *)
(* does not fit the test (ttest: not 2; anova, kruskal: below 3) returns   *)
(* the ApplicabilityError failure, status 400 with the group list, without *)
(* a statistic, and no test was computed.                                  *)
(***************************************************************************)
C3_CardinalityGuard ==
    (ReachedDispatch /\ pc # "test" /\ Misfit) =>
        /\ Returned
        /\ IsFailure(resp)
        /\ KindOf(resp) = "ApplicabilityError"
        /\ resp.code = 400
        /\ "groups" \in Keys(resp) /\ resp.body.groups = groups
        /\ Keys(resp) \cap StatKeys = {}
        /\ computed = {"descriptives"}

C3_Witness ==
    /\ Returned /\ ReachedDispatch
    /\ test = TTEST /\ Len(groups) = 3
    /\ KindOf(resp) = "ApplicabilityError"

(***************************************************************************)
(* C4 as stated.  Every request whose test identifier, trimmed and         *)
(* lower-cased, is non-empty and none of ttest, anova, kruskal returns the *)
(* UnknownTest failure, and no statistical computation was attempted.      *)
(***************************************************************************)
C4_UnknownAlwaysRejectedUncomputed ==
    (Ended /\ UnknownId) =>
        /\ Returned /\ IsFailure(resp) /\ KindOf(resp) = "UnknownTest"
        /\ computed = {}

(***************************************************************************)
(* C4 amended.  A request with such an identifier that reaches test        *)
(* dispatch returns the UnknownTest failure, status 400, naming the three  *)
(* identifiers; no hypothesis test and no post-hoc is attempted, the       *)
(* descriptive summary being the only computation made.                    *)
(***************************************************************************)
C4_UnknownAtDispatch ==
    (ReachedDispatch /\ pc # "test" /\ UnknownId) =>
        /\ Returned
        /\ resp = json_error("Unknown test. Use: ttest | anova | kruskal.", 400, NoExtra)
        /\ computed = {"descriptives"}
        /\ lib = "none"

C4_Witness ==
    /\ Returned /\ UnknownId /\ computed = {"descriptives"}
    /\ Len(groups) = 3
    /\ IsFailure(resp) /\ KindOf(resp) = "UnknownTest"

(***************************************************************************)
(* C5.  Every failure response carries ok = false and an error message;    *)
(* MissingInput, ParseError, ColumnNotFound, ApplicabilityError and        *)
(* UnknownTest have status 400, ColumnNotFound carrying the header of the  *)
(* parsed table and both requested names, ApplicabilityError the group     *)
(* list; status 500 is returned exactly when the numeric procedure of the  *)
(* dispatched test or its post-hoc raised, and then carries the detail.    *)
(***************************************************************************)
C5_FailureShape ==
    (Returned /\ ~IsSuccess(resp)) =>
        /\ IsFailure(resp)
        /\ "error" \in Keys(resp)
        /\ KindOf(resp) # "other"
        /\ resp.code \in {400, 500}
        /\ KindOf(resp) # "AnalysisException" => resp.code = 400
        /\ KindOf(resp) = "ColumnNotFound" =>
              /\ {"columns", "group_requested", "value_requested"} \subseteq Keys(resp)
              /\ resp.body.columns = Head(file.lines)
              /\ resp.body.group_requested = Strip(OrEmpty(form.group))
              /\ resp.body.value_requested = Strip(OrEmpty(form.value))
        /\ KindOf(resp) = "ApplicabilityError" =>
              "groups" \in Keys(resp) /\ resp.body.groups = groups
        /\ resp.code = 500 <=> lib # "none"
        /\ resp.code = 500 =>
              KindOf(resp) = "AnalysisException" /\ "detail" \in Keys(resp)

C5_Witness ==
    /\ Returned /\ IsFailure(resp)
    /\ resp.code = 500 /\ lib = "posthoc" /\ "detail" \in Keys(resp)

(***************************************************************************)
(* C6.  Post-hoc is always and only the continuation of a successful       *)
(* omnibus test on at least 3 groups: a success response for anova holds   *)
(* anova and tukey, for kruskal H, p and dunn, for ttest t and p and no    *)
(* post-hoc table; no response holds an omnibus result without its         *)
(* post-hoc table, a post-hoc failure giving the failure payload.          *)
(***************************************************************************)
C6_PostHocCoupling ==
    /\ "posthoc" \in computed =>
          /\ "test" \in computed /\ lib # "test"
          /\ Len(groups) >= 3 /\ test \in {ANOVA, KRUSKAL}
    /\ Returned =>
          LET K == Keys(resp)
          IN  /\ IsSuccess(resp) /\ test = ANOVA => {"anova", "tukey"} \subseteq K
              /\ IsSuccess(resp) /\ test = KRUSKAL => {"H", "p", "dunn"} \subseteq K
              /\ IsSuccess(resp) /\ test = TTEST =>
                    {"t", "p"} \subseteq K /\ K \cap {"tukey", "dunn", "anova", "H"} = {}
              /\ IsSuccess(resp) => test \in {TTEST, ANOVA, KRUSKAL}
              /\ "anova" \in K <=> "tukey" \in K
              /\ "H" \in K <=> "dunn" \in K
              /\ K \cap {"tukey", "dunn"} # {} =>
                    IsSuccess(resp) /\ "posthoc" \in computed /\ lib = "none"
              /\ lib = "posthoc" => IsFailure(resp) /\ K \cap StatKeys = {}

C6_Witness ==
    /\ Returned /\ test = KRUSKAL /\ lib = "posthoc"
    /\ "H" \in DOMAIN out /\ "dunn" \notin DOMAIN out
    /\ IsFailure(resp)

(***************************************************************************)
(* C7.  The rows whose value entry fails numeric parsing.                  *)
(***************************************************************************)
FailsNumericParsing(s) == s # "" /\ ~IsNumericText(s)

RequestedGroup == Strip(OrEmpty(form.group))
RequestedValue == Strip(OrEmpty(form.value))

RECURSIVE KeepLines(_, _)
KeepLines(lines, j) ==
    IF lines = <<>> THEN <<>>
    ELSE (IF FailsNumericParsing(Head(lines)[j]) THEN <<>> ELSE <<Head(lines)>>)
         \o KeepLines(Tail(lines), j)

HeaderIndex(header, name) == CHOOSE j \in 1..Len(header) : header[j] = name

\* the file with the lines deleted whose value entry fails numeric parsing
DeleteUnparseable(f, vname) ==
    IF f.lines = <<>> \/ ~\E j \in 1..Len(Head(f.lines)) : Head(f.lines)[j] = vname
    THEN f
    ELSE [f EXCEPT !.lines =
            <<Head(f.lines)>> \o KeepLines(Tail(f.lines), HeaderIndex(Head(f.lines), vname))]

\* the parsed table with the same rows removed
RECURSIVE KeepRows(_, _)
KeepRows(rows, j) ==
    IF rows = <<>> THEN <<>>
    ELSE (IF FailsNumericParsing(Head(rows)[j].s) THEN <<>> ELSE <<Head(rows)>>)
         \o KeepRows(Tail(rows), j)

RemoveUnparseable(d, vname) ==
    IF ~HasColumn(d, vname) THEN d
    ELSE [d EXCEPT !.rows = KeepRows(d.rows, ColIndex(d, vname))]

\* how a run ended: where, and with which response
Outcome(h) == <<h.pc, h.resp>>

\* the request with the rows deleted from the file
TwinOnFile == Run(Start(DeleteUnparseable(file, RequestedValue), form), lib)

\* the request with the rows removed from the parsed table
TwinOnTable ==
    LET h0 == StepInputs(Start(file, form))
        h1 == IF h0.pc = "load" THEN StepLoad(h0) ELSE h0
    IN  IF h1.pc = "validate"
        THEN Run([h1 EXCEPT !.df = RemoveUnparseable(@, RequestedValue)], lib)
        ELSE Run(h1, lib)

\* the type read_csv infers for the labels of the requested group column
LabelDtype(f) ==
    LET j == HeaderIndex(Head(f.lines), RequestedGroup)
        raw == Tail(f.lines)
    IN  InferDtype([i \in 1..Len(raw) |-> raw[i][j]])

DeletionKeepsLabelType ==
    (/\ file.lines # <<>>
     /\ \E j \in 1..Len(Head(file.lines)) : Head(file.lines)[j] = RequestedGroup)
    => LabelDtype(file) = LabelDtype(DeleteUnparseable(file, RequestedValue))

\* a label all of whose rows have an unparseable value
HasVanishedLabel ==
    /\ file.lines # <<>>
    /\ Head(file.lines) = <<GName, VName>>
    /\ \E i \in 2..Len(file.lines) :
          /\ file.lines[i][1] # ""
          /\ \A k \in 2..Len(file.lines) :
                file.lines[k][1] = file.lines[i][1] => FailsNumericParsing(file.lines[k][2])

FirstRow(label) ==
    LET col == Column(df, group_col)
    IN  CHOOSE k \in 1..Len(col) : col[k] = label /\ \A m \in 1..(k - 1) : col[m] # label

FirstAppearanceOrder(gs) ==
    LET col == Column(df, group_col)
    IN  /\ Range(gs) = {c \in Range(col) : ~IsNa(c)}
        /\ \A i, j \in 1..Len(gs) : i < j => FirstRow(gs[i]) < FirstRow(gs[j])

C9_IntervalSymmetric ==
    ReachedDispatch =>
        \A i \in 1..Len(out.descriptives) :
            LET r == out.descriptives[i]
            IN  r.n >= 1 =>
                  /\ FEq(FSub(r.ci95_hi, r.mean), FSub(r.mean, r.ci95_lo))
                  /\ FEq(FSub(r.ci95_hi, r.mean), HalfWidth(r.sem))

(***************************************************************************)
(* C10.  After any interleaving of concurrent _append_row calls on a       *)
(* whitelisted csv_name, from a file that does not exist, the file is one  *)
(* header line, first, followed by exactly one complete row per completed  *)
(* call; at most one caller is inside the lock-guarded section; a call     *)
(* with a csv_name outside the whitelist writes nothing.                   *)
(***************************************************************************)
InSection(c) == apc[c] \in {"open", "header", "row", "close", "release"}

\* no call on the file is in progress
Quiescent(n) == \A c \in Callers : acsv[c] = n => apc[c] \in {"idle", "done", "raised"}

C10_AppendLog ==
    /\ Cardinality({c \in Callers : InSection(c)}) <= 1
    /\ \A n \in CsvNames \ ALLOWED_CSV : fs[n] = NoCsvFile
    /\ \A n \in CsvNames \cap ALLOWED_CSV :
          (Quiescent(n) /\ completed[n] > 0) =>
              LET lines == fs[n].lines
              IN  /\ Len(lines) = 1 + completed[n]
                  /\ lines[1] = HeaderLine(n)
                  /\ \A k \in 2..Len(lines) : lines[k].kind = "row"
                  /\ \A c \in Callers :
                        (acsv[c] = n /\ apc[c] = "done") =>
                            Cardinality({k \in 1..Len(lines) : lines[k] = RowLine(n, c)}) = 1

====
